---- MODULE Spec2Model ----
(***************************************************************************)
(* Local execution of mcporter tools (src/src/agents/mcp-local-tools.ts),  *)
(* the default client tools loader (src/unnamed/part_001), the outbound    *)
(* sends of the slack plugin (tested in src/unnamed/part_000) and the UI's *)
(* agents controllers (src/ui/src/ui/controllers/agents.ts).  Each part    *)
(* has its own variables and its own specification; a step of one part     *)
(* leaves the variables of the others unchanged.                           *)
(*                                                                         *)
(* One tool call is one record of calls: the locals of runMcporterCall's   *)
(* promise executor (stdout, stderr, stdoutTruncated, timer), the child    *)
(* process handle, the abort signal, the promise runMcporterCall returns   *)
(* and the position and result of execute.  JavaScript runs each callback  *)
(* to completion, so each callback is one action.                          *)
(*                                                                         *)
(* A string is a sequence of tokens.  The tokens of the child's output are *)
(* single characters: " " (white space), "1" (a digit) and "x" (any other  *)
(* character).  A fixed text of the program (the timeout message, the      *)
(* truncation marker's text, an error's message) is one token.             *)
(***************************************************************************)
EXTENDS Integers, Sequences, FiniteSets, TLC

VARIABLES
    calls,  \* the state of every tool call, by call id
    hist,   \* history: per call, what the child emitted and what was passed to resolve
    args,   \* one construction of the subprocess's argv: its inputs and its result
    cache,  \* the default client tools loader's module variables cached, cachedPath
    loads,  \* the calls of loadDefaultClientTools in flight, by load id
    lhist,  \* history of the loader: the read that filled the cache, the last return
    outbound, \* one outbound send of the slack plugin: its inputs, the sender's call, its result
    ui,     \* the state object of the UI controllers (AgentsState, ChatModelsListState)
    tasks,  \* the calls of the UI controllers, by task id
    gateway, \* the gateway the UI's client talks to: the agents it has
    uhist   \* history of the UI: what the agents.list requests knew and returned

vars == <<calls, hist, args, cache, loads, lhist, outbound, ui, tasks, gateway, uhist>>

----------------------------------------------------------------------------
(* Bounds and scaled program constants                                     *)

\* MCPORTER_MAX_OUTPUT_CHARS is 500_000 in the source (line 14); the model
\* scales the budget down so that output can exceed it.
MCPORTER_MAX_OUTPUT_CHARS == 2

\* The failure payload carries stdout.slice(0, 2000) (line 162); scaled down.
PARTIAL_STDOUT_CHARS == 1

\* The number of 'data' events one child emits on both streams together.
MaxChunks == 2

\* The number of 'error' events one child emits.
MaxErrorEvents == 1

\* The number of calls of loadDefaultClientTools in one behaviour.
MaxLoads == 3

\* The call ids of the model, and the one call of the single-call specification.
Calls == {1, 2}
Solo == {1}

\* The ids of the calls of loadDefaultClientTools that may be in flight together.
Loads == {1, 2}

\* The number of calls of the UI's controllers in one behaviour.
MaxTasks == 3
Tasks == 1..MaxTasks

----------------------------------------------------------------------------
(* Strings                                                                 *)

Min(a, b) == IF a < b THEN a ELSE b

\* s.slice(0, n)
Slice(s, n) == SubSeq(s, 1, Min(n, Len(s)))

IsSpace(ch) == ch \in {" ", "\n"}

RECURSIVE TrimStart(_)
TrimStart(s) ==
    IF s # <<>> /\ IsSpace(Head(s)) THEN TrimStart(Tail(s)) ELSE s

RECURSIVE TrimEnd(_)
TrimEnd(s) ==
    IF s # <<>> /\ IsSpace(s[Len(s)]) THEN TrimEnd(SubSeq(s, 1, Len(s) - 1)) ELSE s

\* s.trim()
Trim(s) == TrimEnd(TrimStart(s))

\* Over the tokens of the model the JSON texts are the numbers: a non-empty
\* run of digits.  JSON.parse throws on everything else.
JSONParseThrows(t) == t = <<>> \/ \E i \in 1..Len(t) : t[i] # "1"

RECURSIVE DigitsValue(_)
DigitsValue(t) ==
    IF t = <<>> THEN 0 ELSE 10 * DigitsValue(SubSeq(t, 1, Len(t) - 1)) + 1

\* JSON.parse(t) of a text that parses: the number it denotes.
JSONParse(t) == [num |-> DigitsValue(t)]

\* The chunks a child's stream delivers.
Chunks == {<<" ">>, <<"1">>, <<"x", "1">>}

----------------------------------------------------------------------------
(* Values                                                                  *)

\* null, as a value of a payload field that may also hold a string.
JNull == [null |-> TRUE]
JStr(s) == [str |-> s]

\* The exit code of a 'close' event and of an outcome: <<n>>, or <<>> for null.
NoCode == <<>>
ExitCodes == {<<0>>, <<2>>, NoCode}

CodeText(code) == IF code = NoCode THEN "null" ELSE IF code = <<0>> THEN "0" ELSE "2"

\* A JavaScript value execute may be called with: typeof, whether it is null
\* or an array, and its content: the entries <<key, number>> of an object in
\* insertion order, the numbers of an array, the number or the text of a
\* primitive.
Value(typeof, isNull, isArray, entries, items, num, text) ==
    [typeof |-> typeof, isNull |-> isNull, isArray |-> isArray,
     entries |-> entries, items |-> items, num |-> num, text |-> text]

\* The params values execute is called with: a plain object, an array, a
\* primitive and null.
ObjectParams == Value("object", FALSE, FALSE, <<<<"a", 1>>>>, <<>>, 0, "")
ArrayParams  == Value("object", FALSE, TRUE, <<>>, <<1>>, 0, "")
NumberParams == Value("number", FALSE, FALSE, <<>>, <<>>, 1, "")
NullParams   == Value("object", TRUE, FALSE, <<>>, <<>>, 0, "")
EmptyObject  == Value("object", FALSE, FALSE, <<>>, <<>>, 0, "")
ParamsValues == {ObjectParams, ArrayParams, NumberParams, NullParams}

\* The errors of the model: what spawn throws, and what the child's 'error'
\* event carries.
SpawnThrown == [name |-> "TypeError", message |-> <<"args[1] must be a string without null bytes">>]
ChildErrors == {[name |-> "Error", message |-> <<"spawn mcporter ENOENT">>]}

\* String(err) of an Error
StringOf(err) == <<err.name, ": ">> \o err.message

TimeoutMessage == <<"mcporter call timed out after 60000ms">>
TruncationMarker == <<"\n", "[output truncated]">>
ExitedWithCode(code) == <<"mcporter call exited with code ", CodeText(code)>>

\* func.name of the tool definition (line 136).
ToolName == <<"search">>
\* The mcporterConfigPath the tool definitions were built with (line 133).
ConfiguredPath == <<"/cfg/mcporter.json">>

----------------------------------------------------------------------------
(* runMcporterCall                                                         *)

isPlainObject(v) == v.typeof = "object" /\ ~v.isNull /\ ~v.isArray

\* The decimal digits, and the text of a natural number.
Digits == <<"0", "1", "2", "3", "4", "5", "6", "7", "8", "9">>

RECURSIVE NumberText(_)
NumberText(n) ==
    IF n < 10 THEN <<Digits[n + 1]>>
    ELSE NumberText(n \div 10) \o <<Digits[(n % 10) + 1]>>

\* A string literal of a JSON text.
Quoted(text) == <<"\"", text, "\"">>

\* The members of an object and the elements of an array, separated by commas.
RECURSIVE JoinEntries(_)
JoinEntries(entries) ==
    IF entries = <<>> THEN <<>>
    ELSE Quoted(Head(entries)[1]) \o <<":">> \o NumberText(Head(entries)[2])
            \o (IF Tail(entries) = <<>> THEN <<>> ELSE <<",">> \o JoinEntries(Tail(entries)))

RECURSIVE JoinItems(_)
JoinItems(items) ==
    IF items = <<>> THEN <<>>
    ELSE NumberText(Head(items))
            \o (IF Tail(items) = <<>> THEN <<>> ELSE <<",">> \o JoinItems(Tail(items)))

\* JSON.stringify(v) (line 40)
JSONStringify(v) ==
    IF v.isNull THEN <<"null">>
    ELSE IF v.typeof = "number" THEN NumberText(v.num)
    ELSE IF v.typeof = "string" THEN Quoted(v.text)
    ELSE IF v.isArray THEN <<"[">> \o JoinItems(v.items) \o <<"]">>
    ELSE <<"{">> \o JoinEntries(v.entries) \o <<"}">>

\* Mutant of McporterArgs: --config is passed whatever the path.
McporterArgsAlwaysConfig(toolName, params, mcporterConfigPath) ==
    <<<<"--config">>, mcporterConfigPath>>
        \o <<<<"call">>, toolName, <<"--args">>, JSONStringify(params)>>

\* The argv of the subprocess (lines 36-40); every argument is a string.
McporterArgs(toolName, params, mcporterConfigPath) ==
    (IF mcporterConfigPath # <<>> THEN <<<<"--config">>, mcporterConfigPath>> ELSE <<>>)
        \o <<<<"call">>, toolName, <<"--args">>, JSONStringify(params)>>

\* paramsRecord of execute (line 149)
ParamsRecord(params) == IF isPlainObject(params) THEN params ELSE EmptyObject

\* A call before execute is called.
IdleCall ==
    [pc |-> "idle",             \* execute: idle, executor (lines 43-47 done),
                                \* awaiting (at line 151), done
     argv |-> <<>>,
     child |-> "none",          \* none, running, exited (the process has ended),
                                \* closed ('close' emitted)
     exitCode |-> <<>>,         \* the code the process ended with
     killCalled |-> FALSE,      \* child.kill("SIGKILL") was called
     killed |-> FALSE,          \* the call found the process and signalled it
     timer |-> "none",          \* none, armed, fired, cleared
     signal |-> "absent",       \* absent, aborted (before the call), pending, fired
     stdout |-> <<>>,
     stderr |-> <<>>,
     stdoutTruncated |-> FALSE,
     promise |-> <<>>,          \* <<>> while pending, <<outcome>> once resolved
     rejection |-> <<>>,        \* <<err>> once rejected
     result |-> <<>>]           \* <<payload>> once execute has returned

IdleHist ==
    [stdoutInput |-> <<>>,      \* all the text the child wrote to stdout
     stderrInput |-> <<>>,      \* all the text the child wrote to stderr
     nChunks |-> 0,
     nErrors |-> 0,
     resolveCalls |-> <<>>,     \* the calls of resolve, in order (see ResolveCall)
     first |-> <<>>]            \* <<Moment>> of the first call of resolve

\* One call of resolve, as the history keeps it: the callback that made it,
\* its argument and the error the callback was given (<<err>>, or <<>>).
ResolveCall(by, outcome, err) ==
    [by |-> by, outcome |-> outcome, err |-> err]

\* What the history keeps of the moment of the first call of resolve: whether
\* the process was running, output had been truncated and each buffer held
\* output.
Moment(s) ==
    [running |-> s.child = "running", truncated |-> s.stdoutTruncated,
     hadStdout |-> s.stdout # <<>>, hadStderr |-> s.stderr # <<>>]

\* The history after a call of resolve in state s.
Resolving(h, s, call) ==
    [h EXCEPT !.resolveCalls = Append(@, call),
              !.first = IF h.resolveCalls = <<>> THEN <<Moment(s)>> ELSE @]

\* Mutant of Resolve: every call of resolve replaces the outcome.
ResolveLastWins(s, outcome) ==
    IF s.rejection = <<>> THEN [s EXCEPT !.promise = <<outcome>>] ELSE s

\* resolve(outcome) of the promise: the first call settles it, a later one is a no-op.
Resolve(s, outcome) ==
    IF s.promise = <<>> /\ s.rejection = <<>>
    THEN [s EXCEPT !.promise = <<outcome>>]
    ELSE s

\* Mutant of ChildKill: the signal is sent whether or not the process has ended.
ChildKillAlways(s) ==
    [s EXCEPT !.killCalled = TRUE, !.killed = TRUE]

\* child.kill("SIGKILL"): sends the signal while the process handle exists,
\* and does nothing once the process has ended.
ChildKill(s) ==
    [s EXCEPT !.killCalled = TRUE, !.killed = @ \/ s.child = "running"]

\* clearTimeout(timer) (lines 99-101, 111-113)
ClearTimer(s) ==
    IF s.timer = "armed" THEN [s EXCEPT !.timer = "cleared"] ELSE s

\* The executor up to the return of spawn (lines 43-47): the child exists.
Spawned(s, argv, signal) ==
    [s EXCEPT !.pc = "executor", !.argv = argv, !.child = "running",
              !.signal = signal]

\* Mutant of Registered: MCPORTER_CALL_TIMEOUT_MS > 0 is false and no timer
\* is armed.
RegisteredNoTimer(s) ==
    [s EXCEPT !.pc = "awaiting",
              !.stdout = <<>>, !.stderr = <<>>, !.stdoutTruncated = FALSE]

\* Mutant of Registered: a signal that is already aborted kills the child at
\* once (if (signal.aborted) child.kill("SIGKILL")).
RegisteredKillsIfAborted(s) ==
    LET r == [s EXCEPT !.pc = "awaiting",
                       !.stdout = <<>>, !.stderr = <<>>, !.stdoutTruncated = FALSE,
                       !.timer = "armed"]
    IN  IF s.signal = "aborted" THEN ChildKill(r) ELSE r

\* The rest of the executor (lines 48-124): the buffers are empty, the timer
\* is armed, the listeners are registered; execute awaits the promise.
Registered(s) ==
    [s EXCEPT !.pc = "awaiting",
              !.stdout = <<>>, !.stderr = <<>>, !.stdoutTruncated = FALSE,
              !.timer = "armed"]

\* spawn throws inside the executor: the promise is rejected.
SpawnThrows(s, argv, signal) ==
    [s EXCEPT !.pc = "awaiting", !.argv = argv, !.signal = signal,
              !.rejection = <<SpawnThrown>>]

TimeoutOutcome == [stdout |-> <<>>, stderr |-> TimeoutMessage, code |-> NoCode]

\* Mutant of TimeoutCallback: the timeout outcome keeps the stdout accumulated.
TimeoutKeepsStdout(s) ==
    Resolve([ChildKill(s) EXCEPT !.timer = "fired"],
            [TimeoutOutcome EXCEPT !.stdout = s.stdout])

\* The timer's callback (lines 54-61).
TimeoutCallback(s) ==
    Resolve([ChildKill(s) EXCEPT !.timer = "fired"], TimeoutOutcome)

\* Mutant of onData: the test is next.length >= MCPORTER_MAX_OUTPUT_CHARS.
onDataOffByOne(s, chunk, isErr) ==
    LET buf == IF isErr THEN s.stderr ELSE s.stdout
        next == buf \o chunk
    IN  IF Len(next) >= MCPORTER_MAX_OUTPUT_CHARS
        THEN IF isErr
             THEN [s EXCEPT !.stdoutTruncated = TRUE,
                            !.stderr = Slice(next, MCPORTER_MAX_OUTPUT_CHARS)]
             ELSE [s EXCEPT !.stdoutTruncated = TRUE,
                            !.stdout = Slice(next, MCPORTER_MAX_OUTPUT_CHARS)]
        ELSE IF isErr
             THEN [s EXCEPT !.stderr = next]
             ELSE [s EXCEPT !.stdout = next]

\* onData (lines 64-81)
onData(s, chunk, isErr) ==
    LET buf == IF isErr THEN s.stderr ELSE s.stdout
        next == buf \o chunk
    IN  IF Len(next) > MCPORTER_MAX_OUTPUT_CHARS
        THEN IF isErr
             THEN [s EXCEPT !.stdoutTruncated = TRUE,
                            !.stderr = Slice(next, MCPORTER_MAX_OUTPUT_CHARS)]
             ELSE [s EXCEPT !.stdoutTruncated = TRUE,
                            !.stdout = Slice(next, MCPORTER_MAX_OUTPUT_CHARS)]
        ELSE IF isErr
             THEN [s EXCEPT !.stderr = next]
             ELSE [s EXCEPT !.stdout = next]

\* Mutant of AbortListener: cancellation resolves the call with an outcome of
\* its own.
AbortListenerResolves(s) ==
    Resolve(ChildKill(s), [stdout |-> s.stdout, stderr |-> <<"aborted">>, code |-> NoCode])

\* The abort listener (lines 91-93).
AbortListener(s) == ChildKill(s)

ErrorOutcome(err) == [stdout |-> <<>>, stderr |-> StringOf(err), code |-> NoCode]

\* Mutant of ErrorHandler: the outcome keeps the stdout accumulated.
ErrorHandlerKeepsStdout(s, err) ==
    Resolve(ClearTimer(s), [ErrorOutcome(err) EXCEPT !.stdout = s.stdout])

\* Mutant of ErrorHandler: the handler leaves the timer armed.
ErrorHandlerKeepsTimer(s, err) == Resolve(s, ErrorOutcome(err))

\* The 'error' handler (lines 98-108).
ErrorHandler(s, err) == Resolve(ClearTimer(s), ErrorOutcome(err))

\* Mutant of CloseOutcome: the truncation marker is never appended.
CloseOutcomeNoMarker(s, code) ==
    [stdout |-> s.stdout, stderr |-> s.stderr, code |-> code]

CloseOutcome(s, code) ==
    IF s.stdoutTruncated
    THEN [stdout |-> s.stdout, stderr |-> s.stderr \o TruncationMarker, code |-> code]
    ELSE [stdout |-> s.stdout, stderr |-> s.stderr, code |-> code]

\* The 'close' handler (lines 110-123).
CloseHandler(s, code) == Resolve(ClearTimer(s), CloseOutcome(s, code))

----------------------------------------------------------------------------
(* execute                                                                 *)

\* Mutant of InterpretOutcome: the failure test is code > 0, so an outcome
\* without a code is read as a success.
InterpretNoCodeSucceeds(o) ==
    IF o.code # <<0>> /\ o.code # NoCode
    THEN [error |-> TRUE,
          message |-> IF Trim(o.stderr) # <<>> THEN Trim(o.stderr)
                      ELSE ExitedWithCode(o.code),
          stdout |-> Slice(o.stdout, PARTIAL_STDOUT_CHARS)]
    ELSE LET trimmed == Trim(o.stdout)
         IN  IF trimmed = <<>>
             THEN [result |-> JNull, raw |-> <<>>]
             ELSE IF ~JSONParseThrows(trimmed)
                  THEN JSONParse(trimmed)
                  ELSE [result |-> JStr(trimmed), raw |-> trimmed]

\* Mutant of InterpretOutcome: output that does not parse is reported as a
\* failure.
InterpretMalformedFails(o) ==
    IF o.code # <<0>>
    THEN [error |-> TRUE,
          message |-> IF Trim(o.stderr) # <<>> THEN Trim(o.stderr)
                      ELSE ExitedWithCode(o.code),
          stdout |-> Slice(o.stdout, PARTIAL_STDOUT_CHARS)]
    ELSE LET trimmed == Trim(o.stdout)
         IN  IF trimmed = <<>>
             THEN [result |-> JNull, raw |-> <<>>]
             ELSE IF ~JSONParseThrows(trimmed)
                  THEN JSONParse(trimmed)
                  ELSE [error |-> TRUE, message |-> <<"invalid JSON">>,
                        stdout |-> Slice(o.stdout, PARTIAL_STDOUT_CHARS)]

\* The body of the try block after the await (lines 157-174).
InterpretOutcome(o) ==
    IF o.code # <<0>>
    THEN [error |-> TRUE,
          message |-> IF Trim(o.stderr) # <<>> THEN Trim(o.stderr)
                      ELSE ExitedWithCode(o.code),
          stdout |-> Slice(o.stdout, PARTIAL_STDOUT_CHARS)]
    ELSE LET trimmed == Trim(o.stdout)
         IN  IF trimmed = <<>>
             THEN [result |-> JNull, raw |-> <<>>]
             ELSE IF ~JSONParseThrows(trimmed)
                  THEN JSONParse(trimmed)
                  ELSE [result |-> JStr(trimmed), raw |-> trimmed]

\* The catch block (lines 175-179).
CatchResult(err) == [error |-> TRUE, message |-> err.message]

\* Mutant of ExecuteReturn: no catch block, a rejected promise rejects execute.
ExecuteReturnNoCatch(s) ==
    IF s.rejection # <<>>
    THEN [s EXCEPT !.pc = "rejected"]
    ELSE [s EXCEPT !.pc = "done", !.result = <<InterpretOutcome(s.promise[1])>>]

\* execute after the await: the try body on a resolved promise, the catch
\* block on a rejected one.
ExecuteReturn(s) ==
    IF s.rejection # <<>>
    THEN [s EXCEPT !.pc = "done", !.result = <<CatchResult(s.rejection[1])>>]
    ELSE [s EXCEPT !.pc = "done", !.result = <<InterpretOutcome(s.promise[1])>>]

----------------------------------------------------------------------------
(* loadDefaultClientTools (src/unnamed/part_001)                           *)

\* undefined, as a value loadDefaultClientTools returns.
Undefined == [undefined |-> TRUE]

\* An element of a parsed array, as isClientToolDefinitionArray looks at it:
\* typeof item and whether it is null, the same of item.function, and typeof
\* item.function.name with the name.
Item(typeof, isNull, fnTypeof, fnIsNull, nameTypeof, name) ==
    [typeof |-> typeof, isNull |-> isNull, fnTypeof |-> fnTypeof,
     fnIsNull |-> fnIsNull, nameTypeof |-> nameTypeof, name |-> name]

\* An element with a function.name string.
Tool(name) == Item("object", FALSE, "object", FALSE, "string", name)

\* What reading and parsing the file yields: the code of the error readFile
\* rejects with ("" when it fulfils), whether the text is JSON, and the value
\* it denotes: an array with its elements, or something else.
File(error, isJSON, isArray, items) ==
    [error |-> error, isJSON |-> isJSON, isArray |-> isArray, items |-> items]

MissingFile    == File("ENOENT", FALSE, FALSE, <<>>)
UnreadableFile == File("EACCES", FALSE, FALSE, <<>>)
NotJSONFile    == File("", FALSE, FALSE, <<>>)
NotArrayFile   == File("", TRUE, FALSE, <<>>)
EmptyArrayFile == File("", TRUE, TRUE, <<>>)
\* Arrays with an element that is no tool definition: null after a tool, a
\* number, an object without function before a tool, function: null, and
\* a function.name that is a number.
BadItemFiles ==
    {File("", TRUE, TRUE, <<Tool("search"), Item("object", TRUE, "undefined", FALSE, "undefined", "")>>),
     File("", TRUE, TRUE, <<Item("number", FALSE, "undefined", FALSE, "undefined", "")>>),
     File("", TRUE, TRUE, <<Item("object", FALSE, "undefined", FALSE, "undefined", ""), Tool("search")>>),
     File("", TRUE, TRUE, <<Item("object", FALSE, "object", TRUE, "undefined", "")>>),
     File("", TRUE, TRUE, <<Item("object", FALSE, "object", FALSE, "number", "")>>)}
OneToolFile    == File("", TRUE, TRUE, <<Tool("search")>>)
TwoToolsFile   == File("", TRUE, TRUE, <<Tool("search"), Tool("fetch")>>)

\* The file may be replaced at any time: a read finds any of these.
Files ==
    {MissingFile, UnreadableFile, NotJSONFile, NotArrayFile, EmptyArrayFile,
     OneToolFile, TwoToolsFile} \cup BadItemFiles

\* cfg.gateway?.defaultClientToolsPath and OPENCLAW_DEFAULT_CLIENT_TOOLS_PATH;
\* <<>> is undefined or the empty string.
CfgPaths == {<<>>, <<" ">>, <<" ", "/cfg/tools.json", " ">>, <<"/cfg/tools.json">>}
EnvPaths == {<<>>, <<"/env/tools.json", "\n">>}
DefaultToolsPath == <<"/app/config/default-client-tools.json">>

\* const path (lines 33-36)
ResolvePath(cfgPath, envPath) ==
    IF Trim(cfgPath) # <<>> THEN Trim(cfgPath)
    ELSE IF Trim(envPath) # <<>> THEN Trim(envPath)
    ELSE DefaultToolsPath

\* The callback of value.every (lines 17-23)
isToolItem(item) ==
    /\ item.typeof = "object" /\ ~item.isNull
    /\ item.fnTypeof = "object" /\ ~item.fnIsNull
    /\ item.nameTypeof = "string"

\* isClientToolDefinitionArray (lines 13-24), of the value a file denotes
isClientToolDefinitionArray(value) ==
    /\ value.isArray
    /\ \A i \in 1..Len(value.items) : isToolItem(value.items[i])

\* The module variables after construction and after a write (lines 10-11).
EmptyCache == [cached |-> JNull, cachedPath |-> JNull]
Cached(path, list) == [cached |-> [list |-> list], cachedPath |-> JStr(path)]

\* Mutant of CacheHit: the cached value is used whatever path it came from.
CacheHitAnyPath(m, path) == m.cached # JNull

\* The test of line 37.
CacheHit(m, path) == m.cachedPath = JStr(path) /\ m.cached # JNull

\* cached.length > 0 ? cached : undefined (lines 38, 53)
ListOrUndefined(list) ==
    IF Len(list) > 0 THEN [tools |-> list] ELSE Undefined

\* Mutant of FromCache: the cached list is returned as it is.
FromCacheAsIs(m) == [tools |-> m.cached.list]

\* The return of line 38.
FromCache(m) == ListOrUndefined(m.cached.list)

\* The load after the read (lines 41-67): the module variables it writes and
\* what it returns.  readFile rejecting and JSON.parse throwing both end in
\* the catch block.
AfterRead(path, file) ==
    IF file.error # "" \/ ~file.isJSON
    THEN [cache |-> Cached(path, <<>>), returned |-> Undefined, threw |-> FALSE]
    ELSE IF ~isClientToolDefinitionArray(file)
    THEN [cache |-> Cached(path, <<>>), returned |-> Undefined, threw |-> FALSE]
    ELSE [cache |-> Cached(path, file.items),
          returned |-> ListOrUndefined(file.items), threw |-> FALSE]

\* A load that is not running, and one awaiting readFile (line 41).
IdleLoad == [pc |-> "idle", path |-> <<>>]
Reading(path) == [pc |-> "reading", path |-> path]

\* The history of the loader: the number of loads started, the read that
\* last wrote the module variables (its path, the file it found, what it
\* returned) and the last return of a load (its path, whether it came from
\* the cache, the read it rests on, the value).  Of the clears it records
\* whether clearDefaultClientToolsCache has been called, the loads whose
\* read was under way at the last clear and still is, whether the module
\* variables were last written by such a read, and whether a load started
\* after the last clear has finished its read.
IdleLoaderHist ==
    [nLoads |-> 0, fill |-> <<>>, lastReturn |-> <<>>,
     cleared |-> FALSE, stale |-> {}, staleFill |-> FALSE, freshDone |-> FALSE]
Fill(path, file, returned) == [path |-> path, file |-> file, returned |-> returned]
Returned(path, fromCache, source, threw, value) ==
    [path |-> path, fromCache |-> fromCache, source |-> source,
     threw |-> threw, value |-> value]

----------------------------------------------------------------------------
(* The UI's controllers (src/ui/src/ui/controllers/agents.ts)              *)
(*                                                                         *)
(* A field that is null or a value is <<>> or <<v>>.  An agent id is a     *)
(* number: 1 is the agent the gateway starts with, a created agent gets    *)
(* the next number.                                                        *)

\* The state object after construction.
InitialState(connected) ==
    [connected |-> connected,       \* state.client and state.connected
     agentsLoading |-> FALSE, agentsCreating |-> FALSE,
     agentsError |-> <<>>, agentsList |-> <<>>, agentsSelectedId |-> <<>>,
     toolsCatalogLoading |-> FALSE, toolsCatalogError |-> <<>>,
     toolsCatalogResult |-> <<>>,
     chatModelsList |-> <<>>, chatModelsListLoading |-> FALSE]

InitialGateway == [agents |-> <<1>>]

\* A call of a controller: idle, awaiting (its request is outstanding), done
\* or rejected; the controller, the method of the outstanding request, the
\* result of agents.create, whether the call issued a request, and what an
\* agents.list request knew when it was issued: the number of agents the
\* gateway had and the created ids the UI had been told.
IdleTask ==
    [pc |-> "idle", op |-> "", method |-> "", result |-> <<>>, agentId |-> <<>>,
     requested |-> FALSE, since |-> 0, told |-> {}]

\* The history of the UI: the created ids it has been told, the told ids
\* known to the request whose result is in agentsList, and whether an
\* agents.list request has failed or returned nothing.
IdleUiHist == [told |-> {}, listTold |-> {}, listFailed |-> FALSE]

\* A gateway response: the request failed, or it returned a value or null.
Failure == [ok |-> FALSE, value |-> <<>>]
Success(value) == [ok |-> TRUE, value |-> <<value>>]
Null == [ok |-> TRUE, value |-> <<>>]

\* String(err) of a failed request
RequestError == <<"Error: gateway request failed">>

\* A controller's synchronous start: the state it leaves and whether it
\* issued its request.
Started(u, request) == [ui |-> u, request |-> request]

\* loadAgents up to the await (lines 107-115)
loadAgentsBegin(u) ==
    IF ~u.connected \/ u.agentsLoading
    THEN Started(u, FALSE)
    ELSE Started([u EXCEPT !.agentsLoading = TRUE, !.agentsError = <<>>], TRUE)

\* res.defaultId ?? res.agents[0]?.id ?? null (line 122)
DefaultSelection(res) ==
    IF res.defaultId # <<>> THEN res.defaultId
    ELSE IF res.agents # <<>> THEN <<res.agents[1]>>
    ELSE <<>>

\* Mutant of loadAgentsEnd: the flag is reset on success only.
loadAgentsEndNoFinally(u, resp) ==
    IF ~resp.ok THEN [u EXCEPT !.agentsError = <<RequestError>>]
    ELSE IF resp.value = <<>> THEN [u EXCEPT !.agentsLoading = FALSE]
    ELSE LET res == resp.value[1]
             selected == u.agentsSelectedId
             known == selected # <<>> /\ \E i \in 1..Len(res.agents) : res.agents[i] = selected[1]
         IN  [u EXCEPT !.agentsList = <<res>>,
                       !.agentsSelectedId = IF selected = <<>> \/ ~known
                                            THEN DefaultSelection(res) ELSE @,
                       !.agentsLoading = FALSE]

\* loadAgents after the await (lines 116-129): the try body, the catch block
\* and the finally block.
loadAgentsEnd(u, resp) ==
    LET v == IF ~resp.ok THEN [u EXCEPT !.agentsError = <<RequestError>>]
             ELSE IF resp.value = <<>> THEN u
             ELSE LET res == resp.value[1]
                      selected == u.agentsSelectedId
                      known == selected # <<>> /\
                               \E i \in 1..Len(res.agents) : res.agents[i] = selected[1]
                  IN  [u EXCEPT !.agentsList = <<res>>,
                                !.agentsSelectedId = IF selected = <<>> \/ ~known
                                                     THEN DefaultSelection(res) ELSE @]
    IN  [v EXCEPT !.agentsLoading = FALSE]

\* createAgent up to the await (lines 133-146)
createAgentBegin(u, name) ==
    IF ~u.connected THEN Started(u, FALSE)
    ELSE IF Trim(name) = <<>>
    THEN Started([u EXCEPT !.agentsError = <<<<"Agent name is required.">>>>], FALSE)
    ELSE IF u.agentsCreating THEN Started(u, FALSE)
    ELSE Started([u EXCEPT !.agentsCreating = TRUE, !.agentsError = <<>>], TRUE)

\* createAgent when agents.create failed (lines 157-161)
createAgentFailed(u) ==
    [u EXCEPT !.agentsError = <<RequestError>>, !.agentsCreating = FALSE]

\* createAgent after the await of loadAgents (lines 153-161)
createAgentEnd(u, result) ==
    [u EXCEPT !.agentsSelectedId = IF result.agentId # <<>> THEN result.agentId ELSE @,
              !.agentsCreating = FALSE]

\* agentId ?? state.agentsSelectedId ?? undefined (line 175)
CatalogAgentId(u, agentId) == IF agentId # <<>> THEN agentId ELSE u.agentsSelectedId

\* loadToolsCatalog up to the await (lines 165-173)
loadToolsCatalogBegin(u) ==
    IF ~u.connected \/ u.toolsCatalogLoading
    THEN Started(u, FALSE)
    ELSE Started([u EXCEPT !.toolsCatalogLoading = TRUE, !.toolsCatalogError = <<>>], TRUE)

\* loadToolsCatalog after the await (lines 174-185)
loadToolsCatalogEnd(u, resp) ==
    LET v == IF ~resp.ok THEN [u EXCEPT !.toolsCatalogError = <<RequestError>>]
             ELSE IF resp.value = <<>> THEN u
             ELSE [u EXCEPT !.toolsCatalogResult = resp.value]
    IN  [v EXCEPT !.toolsCatalogLoading = FALSE]

\* loadChatModels up to the await (lines 198-205)
loadChatModelsBegin(u) ==
    IF ~u.connected \/ u.chatModelsListLoading
    THEN Started(u, FALSE)
    ELSE Started([u EXCEPT !.chatModelsListLoading = TRUE], TRUE)

\* raw.map(...).filter(...) (lines 211-224): provider and id trimmed, the
\* entries without one of them dropped.
RECURSIVE NormalizeModels(_)
NormalizeModels(raw) ==
    IF raw = <<>> THEN <<>>
    ELSE LET provider == Trim(Head(raw).provider)
             id == Trim(Head(raw).id)
         IN  (IF provider = <<>> \/ id = <<>> THEN <<>>
              ELSE <<[provider |-> provider, id |-> id]>>)
                 \o NormalizeModels(Tail(raw))

\* loadChatModels after the await (lines 206-227); a failed request leaves
\* the list as it was and rejects the call.
loadChatModelsEnd(u, resp) ==
    LET v == IF ~resp.ok THEN u
             ELSE LET raw == IF resp.value # <<>> /\ resp.value[1].isArray
                             THEN resp.value[1].models ELSE <<>>
                  IN  [u EXCEPT !.chatModelsList = <<NormalizeModels(raw)>>]
    IN  [v EXCEPT !.chatModelsListLoading = FALSE]

\* The inputs of the controllers, and what the gateway answers.
Names == {<<" ">>, <<" ", "Ada">>}
CatalogAgentIds == {<<>>, <<1>>}
ModelsResults ==
    {[isArray |-> FALSE, models |-> <<>>],
     [isArray |-> TRUE,
      models |-> <<[provider |-> <<" ", "openai">>, id |-> <<"gpt", "\n">>],
                   [provider |-> <<" ">>, id |-> <<"x">>]>>]}

\* An agents.list result: the agents the gateway had at some moment between
\* the issue of the request and its response.
ListResults(since) ==
    {[defaultId |-> <<1>>, agents |-> SubSeq(gateway.agents, 1, k)] :
        k \in since..Len(gateway.agents)}

----------------------------------------------------------------------------
(* Actions                                                                 *)

\* No tool call has been made.
NoCalls ==
    /\ calls = [c \in Calls |-> IdleCall]
    /\ hist = [c \in Calls |-> IdleHist]

\* The variables of the other parts of the model, at rest.
NoArgs == args = <<>>

\* A callback of a tool call changes nothing but the calls.
CallsOnly == UNCHANGED <<args, cache, loads, lhist, outbound, ui, tasks, gateway, uhist>>

\* loadDefaultClientTools has not been called.
NoLoads ==
    /\ cache = EmptyCache
    /\ loads = [l \in Loads |-> IdleLoad]
    /\ lhist = IdleLoaderHist

\* No outbound send has been made.
NoSends == outbound = <<>>

\* No controller of the UI has been called.
NoTasks ==
    /\ ui = InitialState(TRUE)
    /\ tasks = [t \in Tasks |-> IdleTask]
    /\ gateway = InitialGateway
    /\ uhist = IdleUiHist

Init ==
    /\ NoCalls
    /\ NoArgs
    /\ NoLoads
    /\ NoSends
    /\ NoTasks

\* JavaScript runs one callback at a time: no call is inside its executor.
BetweenCallbacks == \A d \in Calls : calls[d].pc # "executor"

\* execute is called (lines 149-156) and runMcporterCall runs up to the
\* return of spawn (lines 36-47), with params, a signal and an outcome of
\* spawn drawn from the given sets.
ExecuteOf(c, paramsSet, signals, spawnOks) ==
    /\ BetweenCallbacks
    /\ calls[c].pc = "idle"
    /\ \E params \in paramsSet, signal \in signals, spawnOk \in spawnOks :
          LET argv == McporterArgs(ToolName, ParamsRecord(params), ConfiguredPath)
          IN  calls' = [calls EXCEPT ![c] =
                            IF spawnOk THEN Spawned(@, argv, signal)
                            ELSE SpawnThrows(@, argv, signal)]
    /\ UNCHANGED hist
    /\ CallsOnly

Execute(c) ==
    ExecuteOf(c, ParamsValues, {"absent", "aborted", "pending"}, BOOLEAN)

\* The executor goes on after spawn, in the same run of the event loop
\* (lines 48-124).
Register(c) ==
    /\ calls[c].pc = "executor"
    /\ calls' = [calls EXCEPT ![c] = Registered(@)]
    /\ UNCHANGED hist
    /\ CallsOnly

\* Mutant of DataOf: stdoutTruncated is a variable of the module, shared by
\* all the calls, instead of a local of the promise executor.
DataOfSharedFlag(c, chunks) ==
    /\ BetweenCallbacks
    /\ calls[c].child \in {"running", "exited"}
    /\ hist[c].nChunks < MaxChunks
    /\ \E chunk \in chunks, isErr \in BOOLEAN :
          /\ calls' = [d \in Calls |->
                          IF d = c THEN onData(calls[c], chunk, isErr)
                          ELSE [calls[d] EXCEPT !.stdoutTruncated =
                                    onData(calls[c], chunk, isErr).stdoutTruncated]]
          /\ hist' = [hist EXCEPT ![c].nChunks = @ + 1,
                                  ![c].stdoutInput = IF isErr THEN @ ELSE @ \o chunk,
                                  ![c].stderrInput = IF isErr THEN @ \o chunk ELSE @]
    /\ CallsOnly

\* A 'data' event of the child's stdout or stderr (lines 84, 86), with a
\* chunk of the given set; the pipes may still hold output after the process
\* has ended.
DataOf(c, chunks) ==
    /\ BetweenCallbacks
    /\ calls[c].child \in {"running", "exited"}
    /\ hist[c].nChunks < MaxChunks
    /\ \E chunk \in chunks, isErr \in BOOLEAN :
          /\ calls' = [calls EXCEPT ![c] = onData(@, chunk, isErr)]
          /\ hist' = [hist EXCEPT ![c].nChunks = @ + 1,
                                  ![c].stdoutInput = IF isErr THEN @ ELSE @ \o chunk,
                                  ![c].stderrInput = IF isErr THEN @ \o chunk ELSE @]
    /\ CallsOnly

Data(c) == DataOf(c, Chunks)

\* The timer fires.
Timeout(c) ==
    /\ BetweenCallbacks
    /\ calls[c].timer = "armed"
    /\ calls' = [calls EXCEPT ![c] = TimeoutCallback(@)]
    /\ hist' = [hist EXCEPT ![c] =
                    Resolving(@, calls[c], ResolveCall("timeout", TimeoutOutcome, <<>>))]
    /\ CallsOnly

\* The abort signal fires; the listener was registered with once: true.
Abort(c) ==
    /\ BetweenCallbacks
    /\ calls[c].signal = "pending"
    /\ calls' = [calls EXCEPT ![c] = [AbortListener(@) EXCEPT !.signal = "fired"]]
    /\ UNCHANGED hist
    /\ CallsOnly

\* The child emits 'error' (the spawn failed, a signal could not be sent).
ChildError(c) ==
    /\ BetweenCallbacks
    /\ calls[c].child \in {"running", "exited"}
    /\ hist[c].nErrors < MaxErrorEvents
    /\ \E err \in ChildErrors :
          /\ calls' = [calls EXCEPT ![c] = ErrorHandler(@, err)]
          /\ hist' = [hist EXCEPT ![c] =
                          Resolving([@ EXCEPT !.nErrors = @ + 1], calls[c],
                                    ResolveCall("error", ErrorOutcome(err), <<err>>))]
    /\ CallsOnly

\* The process ends, with an exit code or (code null) by a signal.
ExitOf(c, codes) ==
    /\ calls[c].child = "running"
    /\ \E code \in codes :
          calls' = [calls EXCEPT ![c].child = "exited", ![c].exitCode = code]
    /\ UNCHANGED hist
    /\ CallsOnly

Exit(c) == ExitOf(c, ExitCodes)

\* The child emits 'close': the process has ended and its streams are closed.
Close(c) ==
    /\ BetweenCallbacks
    /\ calls[c].child = "exited"
    /\ LET code == calls[c].exitCode
       IN  /\ calls' = [calls EXCEPT ![c] = [CloseHandler(@, code) EXCEPT !.child = "closed"]]
           /\ hist' = [hist EXCEPT ![c] =
                           Resolving(@, calls[c],
                                     ResolveCall("close", CloseOutcome(calls[c], code), <<>>))]
    /\ CallsOnly

\* execute resumes after the await and returns.
Return(c) ==
    /\ BetweenCallbacks
    /\ calls[c].pc = "awaiting"
    /\ calls[c].promise # <<>> \/ calls[c].rejection # <<>>
    /\ calls' = [calls EXCEPT ![c] = ExecuteReturn(@)]
    /\ UNCHANGED hist
    /\ CallsOnly

Next ==
    \E c \in Solo :
        \/ Execute(c)
        \/ Register(c)
        \/ Data(c)
        \/ Timeout(c)
        \/ Abort(c)
        \/ ChildError(c)
        \/ Exit(c)
        \/ Close(c)
        \/ Return(c)

Spec == Init /\ [][Next]_vars

\* The executor runs to its end, an armed timer eventually fires, and a
\* continuation whose promise has settled eventually runs: the event loop's
\* scheduling.
Fairness ==
    \A c \in Solo : WF_vars(Register(c)) /\ WF_vars(Timeout(c)) /\ WF_vars(Return(c))

FairSpec == Spec /\ Fairness

\* Calls in flight together.  Every call of Calls runs; to keep the product of
\* the calls' states small each call has plain-object params, a signal that
\* can fire, a spawn that succeeds, chunks of two characters (two of them on
\* one stream exceed the budget), an exit with code 0, and an 'error' event
\* only as the first event of a running child (the spawn failed).
ConcurrentChunks == {<<"x", "1">>}
ConcurrentCodes == {<<0>>}

ExecuteConcurrent(c) == ExecuteOf(c, {ObjectParams}, {"pending"}, {TRUE})
DataConcurrent(c) == DataOf(c, ConcurrentChunks)
ExitConcurrent(c) == ExitOf(c, ConcurrentCodes)
ChildErrorConcurrent(c) ==
    /\ calls[c].child = "running"
    /\ hist[c].nChunks = 0
    /\ hist[c].resolveCalls = <<>>
    /\ ChildError(c)

NextConcurrent ==
    \E c \in Calls :
        \/ ExecuteConcurrent(c)
        \/ Register(c)
        \/ DataConcurrent(c)
        \/ Timeout(c)
        \/ Abort(c)
        \/ ChildErrorConcurrent(c)
        \/ ExitConcurrent(c)
        \/ Close(c)
        \/ Return(c)

SpecConcurrent == Init /\ [][NextConcurrent]_vars

----------------------------------------------------------------------------
(* The argv of the subprocess, for every input                             *)

ToolNames == {<<"search">>, <<"fetch">>, <<"read file">>}
ConfigPaths == {<<>>, <<"/cfg/mcporter.json">>, <<" ">>}

TwoKeyParams == Value("object", FALSE, FALSE, <<<<"a", 1>>, <<"b", 12>>>>, <<>>, 0, "")
StringParams == Value("string", FALSE, FALSE, <<>>, <<>>, 0, "a")
TwoItemParams == Value("object", FALSE, TRUE, <<>>, <<1, 12>>, 0, "")
AllParams == ParamsValues \cup {EmptyObject, TwoKeyParams, StringParams, TwoItemParams}

\* execute is about to be called: a tool name, a params value and a
\* configured path, and no argv yet.
InitArgs ==
    /\ NoCalls
    /\ NoLoads
    /\ NoSends
    /\ NoTasks
    /\ args \in [toolName : ToolNames, params : AllParams,
                  mcporterConfigPath : ConfigPaths, argv : {<<>>}]

\* execute substitutes {} for params that are not a plain object (line 149)
\* and runMcporterCall builds the argv (lines 36-40).
BuildArgs ==
    /\ args.argv = <<>>
    /\ args' = [args EXCEPT !.argv =
                    <<McporterArgs(args.toolName, ParamsRecord(args.params),
                                   args.mcporterConfigPath)>>]
    /\ UNCHANGED <<calls, hist, cache, loads, lhist, outbound, ui, tasks, gateway, uhist>>

SpecArgs == InitArgs /\ [][BuildArgs]_vars

----------------------------------------------------------------------------
(* Loads of the default client tools                                       *)

\* loadDefaultClientTools is called and runs to its first await or return
\* (lines 33-41): a hit of the cache returns, anything else starts the read.
LoadStart(l) ==
    /\ loads[l].pc = "idle"
    /\ lhist.nLoads < MaxLoads
    /\ \E cfgPath \in CfgPaths, envPath \in EnvPaths :
          LET path == ResolvePath(cfgPath, envPath)
          IN  IF CacheHit(cache, path)
              THEN /\ lhist' = [lhist EXCEPT
                                   !.nLoads = @ + 1,
                                   !.lastReturn = <<Returned(path, TRUE, lhist.fill[1],
                                                             FALSE, FromCache(cache))>>]
                   /\ UNCHANGED loads
              ELSE /\ loads' = [loads EXCEPT ![l] = Reading(path)]
                   /\ lhist' = [lhist EXCEPT !.nLoads = @ + 1]
    /\ UNCHANGED <<cache, calls, hist, args, outbound, ui, tasks, gateway, uhist>>

\* readFile settles and the load runs to its return (lines 41-67).
LoadFinish(l) ==
    /\ loads[l].pc = "reading"
    /\ \E file \in Files :
          LET path == loads[l].path
              r == AfterRead(path, file)
              fill == Fill(path, file, r.returned)
          IN  /\ cache' = r.cache
              /\ lhist' = [lhist EXCEPT
                              !.fill = <<fill>>,
                              !.lastReturn = <<Returned(path, FALSE, fill,
                                                        r.threw, r.returned)>>,
                              !.stale = @ \ {l},
                              !.staleFill = l \in lhist.stale,
                              !.freshDone = @ \/ (lhist.cleared /\ l \notin lhist.stale)]
    /\ loads' = [loads EXCEPT ![l] = IdleLoad]
    /\ UNCHANGED <<calls, hist, args, outbound, ui, tasks, gateway, uhist>>

\* clearDefaultClientToolsCache is called (lines 73-76), between any two
\* steps of the loads: it is synchronous and touches no load under way.
clearDefaultClientToolsCache ==
    /\ cache' = EmptyCache
    /\ lhist' = [lhist EXCEPT
                    !.cleared = TRUE,
                    !.stale = {l \in Loads : loads[l].pc = "reading"},
                    !.staleFill = FALSE,
                    !.freshDone = FALSE]
    /\ UNCHANGED <<loads, calls, hist, args, outbound, ui, tasks, gateway, uhist>>

NextLoader ==
    \/ \E l \in Loads : LoadStart(l) \/ LoadFinish(l)
    \/ clearDefaultClientToolsCache

SpecLoader == Init /\ [][NextLoader]_vars

----------------------------------------------------------------------------
(* Outbound sends of the slack plugin                                      *)
(*                                                                         *)
(* The plugin's implementation (channel.js) is not among the sources; its  *)
(* tests are (src/unnamed/part_000).  The inputs below are those of the    *)
(* tests; what the send does with them is taken from the specification.    *)
(* An optional input is <<>> when it is not supplied and <<v>> otherwise.  *)

Targets == {"C123", "C999"}
Texts == {"hello", "caption"}
ReplyToIds == {<<>>, <<"1712000000.000001">>, <<"1712345678.123456">>}
ThreadIds == {<<>>, <<"1712345678.123456">>}
MediaUrl == <<"https://example.com/image.png">>
MessageIds == {"m-text", "m-media"}

\* Mutant of ThreadTs: the thread id goes first.
ThreadTsPrefersThread(replyToId, threadId) ==
    IF threadId # <<>> THEN threadId ELSE replyToId

\* The thread-linkage field of the sender's options: the reply-to id when
\* there is one, else the thread id.
ThreadTs(replyToId, threadId) ==
    IF replyToId # <<>> THEN replyToId ELSE threadId

\* The call of deps.sendSlack a send makes.
SenderCall(o) ==
    [to |-> o.to, text |-> o.text,
     mediaUrl |-> IF o.operation = "sendMedia" THEN o.mediaUrl ELSE <<>>,
     threadTs |-> ThreadTs(o.replyToId, o.threadId)]

\* What the send returns for the sender's result.
SendResult(sent) == [channel |-> "slack", messageId |-> sent.messageId]

\* sendText or sendMedia is about to be called.
InitOutbound ==
    /\ NoCalls /\ NoArgs /\ NoLoads /\ NoTasks
    /\ \E operation \in {"sendText", "sendMedia"} :
          outbound \in [operation : {operation}, to : Targets, text : Texts,
                        mediaUrl : IF operation = "sendMedia" THEN {MediaUrl} ELSE {<<>>},
                        replyToId : ReplyToIds, threadId : ThreadIds,
                        senderCall : {<<>>}, sent : {<<>>}, result : {<<>>}]

\* The send calls the sender and awaits it.
Send ==
    /\ outbound.senderCall = <<>>
    /\ outbound' = [outbound EXCEPT !.senderCall = <<SenderCall(outbound)>>]
    /\ UNCHANGED <<calls, hist, args, cache, loads, lhist, ui, tasks, gateway, uhist>>

\* The sender resolves with a message id and the send returns.
Sent ==
    /\ outbound.senderCall # <<>>
    /\ outbound.result = <<>>
    /\ \E messageId \in MessageIds :
          LET sent == [messageId |-> messageId]
          IN  outbound' = [outbound EXCEPT !.sent = <<sent>>,
                                           !.result = <<SendResult(sent)>>]
    /\ UNCHANGED <<calls, hist, args, cache, loads, lhist, ui, tasks, gateway, uhist>>

NextOutbound == Send \/ Sent

SpecOutbound == InitOutbound /\ [][NextOutbound]_vars

----------------------------------------------------------------------------
(* Calls of the UI's controllers                                           *)

\* A call that has returned.
Done(op, requested, result) ==
    [IdleTask EXCEPT !.pc = "done", !.op = op, !.requested = requested,
                     !.result = result]

\* A call awaiting the response to its request.
Awaiting(op, method, result, agentId) ==
    [IdleTask EXCEPT !.pc = "awaiting", !.op = op, !.method = method,
                     !.result = result, !.agentId = agentId, !.requested = TRUE,
                     !.since = Len(gateway.agents), !.told = uhist.told]

\* The history after the response to an agents.list request of task t.
ListAnswered(resp, t) ==
    IF resp.ok /\ resp.value # <<>>
    THEN [uhist EXCEPT !.listTold = tasks[t].told]
    ELSE [uhist EXCEPT !.listFailed = TRUE]

\* loadAgents(state) is called.
CallLoadAgents(t) ==
    /\ tasks[t].pc = "idle"
    /\ LET b == loadAgentsBegin(ui)
       IN  /\ ui' = b.ui
           /\ tasks' = [tasks EXCEPT ![t] =
                            IF b.request THEN Awaiting("loadAgents", "agents.list", <<>>, <<>>)
                            ELSE Done("loadAgents", FALSE, <<>>)]
    /\ UNCHANGED <<gateway, uhist, calls, hist, args, cache, loads, lhist, outbound>>

\* createAgent(state, name) is called.
CallCreateAgent(t) ==
    /\ tasks[t].pc = "idle"
    /\ \E name \in Names :
          LET b == createAgentBegin(ui, name)
          IN  /\ ui' = b.ui
              /\ tasks' = [tasks EXCEPT ![t] =
                               IF b.request
                               THEN Awaiting("createAgent", "agents.create", <<>>, <<>>)
                               ELSE Done("createAgent", FALSE, <<>>)]
    /\ UNCHANGED <<gateway, uhist, calls, hist, args, cache, loads, lhist, outbound>>

\* loadToolsCatalog(state, agentId) is called.
CallLoadToolsCatalog(t) ==
    /\ tasks[t].pc = "idle"
    /\ \E agentId \in CatalogAgentIds :
          LET b == loadToolsCatalogBegin(ui)
          IN  /\ ui' = b.ui
              /\ tasks' = [tasks EXCEPT ![t] =
                               IF b.request
                               THEN Awaiting("loadToolsCatalog", "tools.catalog", <<>>,
                                             CatalogAgentId(ui, agentId))
                               ELSE Done("loadToolsCatalog", FALSE, <<>>)]
    /\ UNCHANGED <<gateway, uhist, calls, hist, args, cache, loads, lhist, outbound>>

\* loadChatModels(state) is called.
CallLoadChatModels(t) ==
    /\ tasks[t].pc = "idle"
    /\ LET b == loadChatModelsBegin(ui)
       IN  /\ ui' = b.ui
           /\ tasks' = [tasks EXCEPT ![t] =
                            IF b.request
                            THEN Awaiting("loadChatModels", "models.list", <<>>, <<>>)
                            ELSE Done("loadChatModels", FALSE, <<>>)]
    /\ UNCHANGED <<gateway, uhist, calls, hist, args, cache, loads, lhist, outbound>>

\* The gateway answers an agents.list request: loadAgents runs to its end
\* and, inside createAgent, createAgent runs to its end after it.
AgentsListed(t) ==
    /\ tasks[t].pc = "awaiting"
    /\ tasks[t].method = "agents.list"
    /\ \E resp \in {Failure, Null} \cup {Success(res) : res \in ListResults(tasks[t].since)} :
          /\ ui' = IF tasks[t].op = "createAgent"
                   THEN createAgentEnd(loadAgentsEnd(ui, resp), tasks[t].result[1])
                   ELSE loadAgentsEnd(ui, resp)
          /\ uhist' = ListAnswered(resp, t)
    /\ tasks' = [tasks EXCEPT ![t] = Done(tasks[t].op, TRUE, tasks[t].result)]
    /\ UNCHANGED <<gateway, calls, hist, args, cache, loads, lhist, outbound>>

\* The gateway answers agents.create: it failed, or the agent was created
\* and the result has its id or lacks it.  createAgent goes on to loadAgents
\* (line 152), which issues a request or returns at once.
AgentCreated(t) ==
    /\ tasks[t].pc = "awaiting"
    /\ tasks[t].method = "agents.create"
    /\ \/ /\ ui' = createAgentFailed(ui)
          /\ tasks' = [tasks EXCEPT ![t] = Done("createAgent", TRUE, <<>>)]
          /\ UNCHANGED <<gateway, uhist>>
       \/ \E hasId \in BOOLEAN :
             LET id == Len(gateway.agents) + 1
                 result == [agentId |-> IF hasId THEN <<id>> ELSE <<>>]
                 b == loadAgentsBegin(ui)
             IN  /\ gateway' = [gateway EXCEPT !.agents = Append(@, id)]
                 /\ uhist' = [uhist EXCEPT !.told = IF hasId THEN @ \cup {id} ELSE @]
                 /\ ui' = IF b.request THEN b.ui ELSE createAgentEnd(b.ui, result)
                 /\ tasks' = [tasks EXCEPT ![t] =
                                  IF b.request
                                  THEN [Awaiting("createAgent", "agents.list", <<result>>, <<>>)
                                           EXCEPT !.since = Len(gateway.agents) + 1,
                                                  !.told = uhist'.told]
                                  ELSE Done("createAgent", TRUE, <<result>>)]
    /\ UNCHANGED <<calls, hist, args, cache, loads, lhist, outbound>>

\* The gateway answers tools.catalog.
CatalogListed(t) ==
    /\ tasks[t].pc = "awaiting"
    /\ tasks[t].method = "tools.catalog"
    /\ \E resp \in {Failure, Null, Success([agentId |-> tasks[t].agentId])} :
          ui' = loadToolsCatalogEnd(ui, resp)
    /\ tasks' = [tasks EXCEPT ![t] = Done("loadToolsCatalog", TRUE, <<>>)]
    /\ UNCHANGED <<gateway, uhist, calls, hist, args, cache, loads, lhist, outbound>>

\* The gateway answers models.list; a failure rejects loadChatModels.
ModelsListed(t) ==
    /\ tasks[t].pc = "awaiting"
    /\ tasks[t].method = "models.list"
    /\ \E resp \in {Failure, Null} \cup {Success(res) : res \in ModelsResults} :
          /\ ui' = loadChatModelsEnd(ui, resp)
          /\ tasks' = [tasks EXCEPT ![t] =
                           [Done("loadChatModels", TRUE, <<>>) EXCEPT
                               !.pc = IF resp.ok THEN "done" ELSE "rejected"]]
    /\ UNCHANGED <<gateway, uhist, calls, hist, args, cache, loads, lhist, outbound>>

NextUi ==
    \E t \in Tasks :
        \/ CallLoadAgents(t)
        \/ CallCreateAgent(t)
        \/ CallLoadToolsCatalog(t)
        \/ CallLoadChatModels(t)
        \/ AgentsListed(t)
        \/ AgentCreated(t)
        \/ CatalogListed(t)
        \/ ModelsListed(t)

InitUi ==
    /\ NoCalls /\ NoArgs /\ NoLoads /\ NoSends
    /\ ui \in {InitialState(connected) : connected \in BOOLEAN}
    /\ tasks = [t \in Tasks |-> IdleTask]
    /\ gateway = InitialGateway
    /\ uhist = IdleUiHist

SpecUi == InitUi /\ [][NextUi]_vars

----------------------------------------------------------------------------
(* Claims                                                                  *)

FirstResolve(c) == hist[c].resolveCalls[1]
FirstMoment(c) == hist[c].first[1]
Resolved(c) == hist[c].resolveCalls # <<>>

\* C1: whatever the order of the timeout callback, the 'error' event and the
\* 'close' event, the call has at most one outcome, and it is the argument of
\* the first call of resolve; a later event never changes or replaces it.
C1_FirstEventWins ==
    \A c \in Solo :
        calls[c].promise =
            IF Resolved(c) THEN <<FirstResolve(c).outcome>> ELSE <<>>

\* C1 witness: all three events have occurred and the second and the third
\* asked for another outcome than the first.
C1_Witness ==
    \E c \in Solo :
        /\ Len(hist[c].resolveCalls) = 3
        /\ hist[c].resolveCalls[2].outcome # FirstResolve(c).outcome
        /\ hist[c].resolveCalls[3].outcome # FirstResolve(c).outcome
        /\ calls[c].pc = "done"

\* C2: once execute is called it eventually returns a ToolResult, whatever
\* the params value and whatever the subprocess does (spawn throws, 'error',
\* no 'close' and no 'error' at all); it never rejects.
C2_ExecuteEventuallyReturns ==
    \A c \in Solo :
        (calls[c].pc # "idle") ~> (calls[c].pc = "done" /\ calls[c].result # <<>>)

\* C2 witness: execute returned a ToolResult although spawn threw.
C2_Witness ==
    \E c \in Solo :
        /\ calls[c].pc = "done"
        /\ calls[c].rejection # <<>>
        /\ calls[c].result # <<>>

\* C3: when the timeout callback is the first to resolve, child.kill("SIGKILL")
\* was called (and signalled the process if it was running), the outcome is exactly empty stdout, the timeout message and no
\* code, whatever was accumulated, the ToolResult is a failure with the
\* timeout message, and the 'close' that follows changes nothing.
C3_TimeoutOutcome ==
    \A c \in Solo :
        (Resolved(c) /\ FirstResolve(c).by = "timeout") =>
            /\ calls[c].killCalled
            /\ FirstMoment(c).running => calls[c].killed
            /\ calls[c].promise =
                   <<[stdout |-> <<>>,
                      stderr |-> <<"mcporter call timed out after 60000ms">>,
                      code |-> <<>>]>>
            /\ calls[c].result # <<>> =>
                   calls[c].result =
                       <<[error |-> TRUE,
                          message |-> <<"mcporter call timed out after 60000ms">>,
                          stdout |-> <<>>]>>

\* C3 witness: the timeout fired with output in both buffers, 'close'
\* followed the kill, and execute has returned.
C3_Witness ==
    \E c \in Solo :
        /\ Len(hist[c].resolveCalls) >= 2
        /\ FirstResolve(c).by = "timeout"
        /\ FirstMoment(c).running
        /\ FirstMoment(c).hadStdout /\ FirstMoment(c).hadStderr
        /\ hist[c].resolveCalls[Len(hist[c].resolveCalls)].by = "close"
        /\ calls[c].pc = "done"


\* The abort signal of call c fires in this step.
AbortStep(c) == calls[c].signal = "pending" /\ calls'[c].signal = "fired"

LastResolve(c) == hist[c].resolveCalls[Len(hist[c].resolveCalls)]

C5_LateCancellationNoEffect ==
    [][\A c \in Solo :
          (AbortStep(c) /\ Resolved(c) /\ FirstResolve(c).by = "close") =>
              /\ calls'[c] = [calls[c] EXCEPT !.signal = "fired", !.killCalled = TRUE]
              /\ hist'[c] = hist[c]
      ]_vars

\* C5 witness: execute had returned the result of a natural completion when
\* the signal fired.
C5_Witness ==
    \E c \in Solo :
        /\ calls[c].signal = "fired"
        /\ ~calls[c].killed
        /\ calls[c].child = "closed"
        /\ FirstResolve(c).by = "close"
        /\ calls[c].promise[1].code = <<0>>
        /\ calls[c].pc = "done"

\* C6: when the 'error' handler is the first to resolve, the outcome is
\* exactly empty stdout, String(err) and no code, whatever was accumulated;
\* nothing is thrown, and execute returns a failure whose message is
\* String(err).
C6_SpawnErrorOutcome ==
    \A c \in Solo :
        (Resolved(c) /\ FirstResolve(c).by = "error") =>
            LET err == FirstResolve(c).err[1]
                text == <<err.name, ": ">> \o err.message
            IN  /\ calls[c].promise = <<[stdout |-> <<>>, stderr |-> text, code |-> <<>>]>>
                /\ calls[c].rejection = <<>>
                /\ calls[c].pc \in {"awaiting", "done"}
                /\ calls[c].pc = "done" =>
                       calls[c].result =
                           <<[error |-> TRUE, message |-> text, stdout |-> <<>>]>>

\* C6 witness: 'error' came first, with output in the stdout buffer, and
\* execute has returned.
C6_Witness ==
    \E c \in Solo :
        /\ Resolved(c) /\ FirstResolve(c).by = "error"
        /\ FirstMoment(c).hadStdout
        /\ calls[c].pc = "done"


\* t is s without its leading and trailing white space.
IsTrimOf(t, s) ==
    \E i \in 0..Len(s) :
        /\ i + Len(t) <= Len(s)
        /\ \A k \in 1..i : s[k] \in {" ", "\n"}
        /\ \A k \in 1..Len(t) : t[k] = s[i + k]
        /\ \A k \in (i + Len(t) + 1)..Len(s) : s[k] \in {" ", "\n"}
        /\ t # <<>> => t[1] \notin {" ", "\n"} /\ t[Len(t)] \notin {" ", "\n"}

\* The parts of s: every run of consecutive tokens of s.
Parts(s) == {<<>>} \cup {SubSeq(s, i, j) : i, j \in 1..Len(s)}

IsFailurePayload(p) == "error" \in DOMAIN p

\* The call has returned the interpretation of an outcome.
Interpreted(c) == calls[c].pc = "done" /\ calls[c].promise # <<>>

C8_SuccessPayload ==
    \A c \in Solo :
        (Interpreted(c) /\ calls[c].promise[1].code = <<0>>) =>
            LET o == calls[c].promise[1]
                p == calls[c].result[1]
            IN  \E t \in Parts(o.stdout) :
                    /\ IsTrimOf(t, o.stdout)
                    /\ p = IF t = <<>>
                           THEN [result |-> [null |-> TRUE], raw |-> <<>>]
                           ELSE IF \A k \in 1..Len(t) : t[k] = "1"
                                THEN [num |-> (10 ^ Len(t) - 1) \div 9]
                                ELSE [result |-> [str |-> t], raw |-> t]

\* C8 witness: exit code 0 with a stdout that has white space around text
\* that is not JSON.
C8_Witness ==
    \E c \in Solo :
        /\ Interpreted(c)
        /\ calls[c].promise[1].code = <<0>>
        /\ "raw" \in DOMAIN calls[c].result[1]
        /\ calls[c].result[1].raw # <<>>
        /\ calls[c].result[1].raw # calls[c].promise[1].stdout


\* The input of a stream has exceeded the budget.
Exceeded(input) == Len(input) > MCPORTER_MAX_OUTPUT_CHARS

\* buf is the first min(budget, total) characters of input.
IsBudgetPrefix(buf, input) ==
    /\ Len(buf) = (IF Len(input) < MCPORTER_MAX_OUTPUT_CHARS
                   THEN Len(input) ELSE MCPORTER_MAX_OUTPUT_CHARS)
    /\ \A k \in 1..Len(buf) : buf[k] = input[k]

\* C9 (as amended): each buffer is the first min(budget, total) characters of
\* its stream's chunks in arrival order; the call's one truncation flag is
\* true exactly when the input of either stream has exceeded the budget, and
\* once true it stays true; a chunk of one stream never changes the other
\* stream's buffer.
C9_BuffersAndSharedFlag ==
    /\ [](\A c \in Solo :
             /\ IsBudgetPrefix(calls[c].stdout, hist[c].stdoutInput)
             /\ IsBudgetPrefix(calls[c].stderr, hist[c].stderrInput)
             /\ calls[c].stdoutTruncated <=>
                    (Exceeded(hist[c].stdoutInput) \/ Exceeded(hist[c].stderrInput)))
    /\ [][\A c \in Solo :
             /\ calls[c].stdoutTruncated => calls'[c].stdoutTruncated
             /\ hist'[c].stdoutInput = hist[c].stdoutInput =>
                    calls'[c].stdout = calls[c].stdout
             /\ hist'[c].stderrInput = hist[c].stderrInput =>
                    calls'[c].stderr = calls[c].stderr
         ]_vars

\* C9 witness: stdout has received more than the budget in two chunks, and
\* stderr nothing.
C9_Witness ==
    \E c \in Solo :
        /\ Exceeded(hist[c].stdoutInput)
        /\ Len(calls[c].stdout) = MCPORTER_MAX_OUTPUT_CHARS
        /\ hist[c].stderrInput = <<>>
        /\ calls[c].stdoutTruncated

\* C9 as claimed: each stream has a truncation flag of its own, true exactly
\* when that stream's own input has exceeded the budget.  The flag the code
\* keeps for stdout is stdoutTruncated.
C9_PerStreamFlag ==
    \A c \in Solo :
        /\ IsBudgetPrefix(calls[c].stdout, hist[c].stdoutInput)
        /\ IsBudgetPrefix(calls[c].stderr, hist[c].stderrInput)
        /\ calls[c].stdoutTruncated <=> Exceeded(hist[c].stdoutInput)

HasMarker(text) ==
    /\ Len(text) >= 2
    /\ SubSeq(text, Len(text) - 1, Len(text)) = <<"\n", "[output truncated]">>

\* C10 (as amended): when the call resolves through 'close', the outcome's
\* stdout and stderr are the buffers, with the truncation marker appended to
\* stderr exactly when either stream exceeded its budget, and its code is the
\* code the process ended with; a truncated zero exit is not a failure.  An
\* outcome of the timeout or the 'error' path never carries the marker.
C10_MarkerOnClose ==
    \A c \in Solo :
        /\ (Resolved(c) /\ FirstResolve(c).by # "close") =>
               ~HasMarker(calls[c].promise[1].stderr)
        /\ (Resolved(c) /\ FirstResolve(c).by = "close") =>
            LET o == calls[c].promise[1]
                exceeded == Exceeded(hist[c].stdoutInput) \/ Exceeded(hist[c].stderrInput)
            IN  /\ o.stdout = calls[c].stdout
                /\ o.stderr = IF exceeded
                              THEN calls[c].stderr \o <<"\n", "[output truncated]">>
                              ELSE calls[c].stderr
                /\ HasMarker(o.stderr) <=> exceeded
                /\ o.code = calls[c].exitCode
                /\ (calls[c].pc = "done" /\ o.code = <<0>>) =>
                       ~IsFailurePayload(calls[c].result[1])

\* C10 witness: stdout exceeded its budget, the process ended with code 0 and
\* execute returned a success payload.
C10_Witness ==
    \E c \in Solo :
        /\ Resolved(c) /\ FirstResolve(c).by = "close"
        /\ Exceeded(hist[c].stdoutInput)
        /\ HasMarker(calls[c].promise[1].stderr)
        /\ calls[c].promise[1].code = <<0>>
        /\ calls[c].pc = "done"
        /\ ~IsFailurePayload(calls[c].result[1])

\* C10 as claimed: whenever a stream had exceeded its budget when the call
\* resolved, the outcome's stderr ends with the marker and its code is the
\* code of the process; without truncation there is no marker.
C10_MarkerOnEveryOutcome ==
    \A c \in Solo :
        Resolved(c) =>
            LET o == calls[c].promise[1]
            IN  /\ FirstMoment(c).truncated => HasMarker(o.stderr)
                /\ ~FirstMoment(c).truncated => ~HasMarker(o.stderr)
                /\ (FirstMoment(c).truncated /\ calls[c].child = "closed") =>
                       o.code = calls[c].exitCode

\* What call c's history says of the callbacks that have called resolve.
ResolvedBy(c, by) ==
    \E i \in 1..Len(hist[c].resolveCalls) : hist[c].resolveCalls[i].by = by

\* C11: with any number of calls in flight, every step changes the state of
\* at most one call, and each call's buffers, truncation flag, timer, kill and
\* outcome are determined by the events of its own subprocess, timer and
\* signal, whatever the other calls received.
C11_CallsIndependent ==
    /\ [](\A c \in Calls :
             /\ IsBudgetPrefix(calls[c].stdout, hist[c].stdoutInput)
             /\ IsBudgetPrefix(calls[c].stderr, hist[c].stderrInput)
             /\ calls[c].stdoutTruncated <=>
                    (Exceeded(hist[c].stdoutInput) \/ Exceeded(hist[c].stderrInput))
             /\ calls[c].timer = "fired" <=> ResolvedBy(c, "timeout")
             /\ calls[c].timer = "cleared" =>
                    (ResolvedBy(c, "error") \/ ResolvedBy(c, "close"))
             /\ calls[c].killCalled =>
                    (calls[c].timer = "fired" \/ calls[c].signal = "fired")
             /\ calls[c].promise =
                    IF Resolved(c) THEN <<FirstResolve(c).outcome>> ELSE <<>>
             /\ calls[c].pc = "done" =>
                    calls[c].result = <<InterpretOutcome(FirstResolve(c).outcome)>>)
    /\ [][\A c \in Calls, d \in Calls :
             c # d =>
                \/ calls'[c] = calls[c] /\ hist'[c] = hist[c]
                \/ calls'[d] = calls[d] /\ hist'[d] = hist[d]
         ]_vars

\* C11 witness: call 1 was truncated, cancelled and timed out and has
\* returned its failure; call 2, in flight all the while, has returned its own
\* untruncated output as a success.
C11_Witness ==
    /\ calls[1].pc = "done"
    /\ calls[1].stdoutTruncated
    /\ calls[1].signal = "fired"
    /\ calls[1].timer = "fired"
    /\ FirstResolve(1).by = "timeout"
    /\ IsFailurePayload(calls[1].result[1])
    /\ calls[2].pc = "done"
    /\ hist[2].stdoutInput = <<"x", "1">>
    /\ ~calls[2].stdoutTruncated
    /\ calls[2].timer = "cleared"
    /\ ~calls[2].killCalled
    /\ calls[2].result = <<[result |-> JStr(<<"x", "1">>), raw |-> <<"x", "1">>]>>

\* The JSON text the claim expects for each params value: the text of the
\* object itself, and the text of the empty object for everything else.
ExpectedJson(params) ==
    IF params = ObjectParams THEN <<"{", "\"", "a", "\"", ":", "1", "}">>
    ELSE IF params = TwoKeyParams
    THEN <<"{", "\"", "a", "\"", ":", "1", ",", "\"", "b", "\"", ":", "1", "2", "}">>
    ELSE <<"{", "}">>

\* C12: the argv is --config and the path exactly when the configured path is
\* not the empty string, followed by call, the tool name, --args and the JSON
\* text of params when params is a plain object and of the empty object when
\* it is an array, a primitive or null; an argv is built for every params.
C12_ArgvLayout ==
    args # <<>> /\ args.argv # <<>> =>
        LET argv == args.argv[1]
            path == args.mcporterConfigPath
            k == IF path = <<>> THEN 0 ELSE 2
        IN  /\ Len(argv) = k + 4
            /\ path # <<>> => argv[1] = <<"--config">> /\ argv[2] = path
            /\ argv[k + 1] = <<"call">>
            /\ argv[k + 2] = args.toolName
            /\ argv[k + 3] = <<"--args">>
            /\ argv[k + 4] = ExpectedJson(args.params)

\* C12 witness: an argv was built for an array params and an empty path.
C12_Witness ==
    /\ args # <<>>
    /\ args.params = TwoItemParams
    /\ args.mcporterConfigPath = <<>>
    /\ args.argv = <<<<<<"call">>, <<"fetch">>, <<"--args">>, <<"{", "}">>>>>>

\* The last return of a load.
LastReturn == lhist.lastReturn[1]

\* An element that is not an object with a nested function.name string.
LacksFunctionName(item) ==
    \/ item.typeof # "object" \/ item.isNull
    \/ item.fnTypeof # "object" \/ item.fnIsNull
    \/ item.nameTypeof # "string"

\* The file is missing or unreadable, is not JSON, or is not an array of
\* objects that each have a function.name string.
BadToolsFile(f) ==
    \/ f.error # ""
    \/ ~f.isJSON
    \/ ~f.isArray
    \/ \E i \in 1..Len(f.items) : LacksFunctionName(f.items[i])

\* C13: a load never throws; it returns undefined whenever the read it rests
\* on (its own, or the one that filled the cache) found the file missing,
\* unreadable, not JSON or not an array of tool definitions; it never returns
\* an empty list, and a list it returns is the non-empty array of the file.
C13_AbsentUnlessValidNonEmpty ==
    lhist.lastReturn # <<>> =>
        /\ ~LastReturn.threw
        /\ LastReturn.value # [tools |-> <<>>]
        /\ BadToolsFile(LastReturn.source.file) => LastReturn.value = Undefined
        /\ LastReturn.value # Undefined =>
               /\ LastReturn.value = [tools |-> LastReturn.source.file.items]
               /\ LastReturn.source.file.items # <<>>

\* C13 witness: a load answered from the cache returned undefined, the cache
\* having been filled by a read of an empty array.
C13_Witness ==
    /\ lhist.lastReturn # <<>>
    /\ LastReturn.fromCache
    /\ LastReturn.source.file = EmptyArrayFile
    /\ LastReturn.value = Undefined

\* C14: cached and cachedPath are written together by one read: they are
\* null together, and otherwise are the path and the list of the last read
\* that finished.  A load answered from the cache has the path of that read
\* and returns what that read returned (undefined when it failed); a load
\* returns without reading only when cachedPath is its path, and a load that
\* reads leaves its own path and list in the cache.
C14_CacheKeyedByPath ==
    /\ [](/\ cache.cached = JNull <=> cache.cachedPath = JNull
          /\ cache.cached # JNull =>
                /\ lhist.fill # <<>>
                /\ cache.cachedPath = JStr(lhist.fill[1].path)
                /\ ListOrUndefined(cache.cached.list) = lhist.fill[1].returned
          /\ (lhist.lastReturn # <<>> /\ LastReturn.fromCache) =>
                /\ LastReturn.path = LastReturn.source.path
                /\ LastReturn.value = LastReturn.source.returned)
    /\ [][\A l \in Loads :
             /\ (loads[l].pc = "reading" /\ loads'[l].pc = "idle") =>
                    /\ cache'.cachedPath = JStr(loads[l].path)
                    /\ lhist'.fill[1].path = loads[l].path
                    /\ ~lhist'.lastReturn[1].fromCache
             /\ (lhist'.nLoads # lhist.nLoads /\ loads' = loads) =>
                    /\ lhist'.lastReturn[1].fromCache
                    /\ cache.cached # JNull
                    /\ cache.cachedPath = JStr(lhist'.lastReturn[1].path)
                    /\ cache' = cache
             /\ (loads[l].pc = "idle" /\ loads'[l].pc = "reading") =>
                    /\ cache.cachedPath # JStr(loads'[l].path)
                    /\ cache' = cache
         ]_vars

\* C14 witness: a load was answered from the cache with the tools of the
\* read of its path, while a load of another path is reading.
C14_Witness ==
    /\ lhist.lastReturn # <<>>
    /\ LastReturn.fromCache
    /\ LastReturn.value = [tools |-> <<Tool("search"), Tool("fetch")>>]
    /\ \E l \in Loads : loads[l].pc = "reading" /\ loads[l].path # LastReturn.path

\* C15: in every outbound send the threadTs passed to the sender is the
\* replyToId whenever one is supplied, with or without a threadId, and is the
\* threadId only when no replyToId is supplied; the send returns the channel
\* "slack" with the sender's messageId.
C15_ReplyToIdFirst ==
    (outbound # <<>> /\ outbound.senderCall # <<>>) =>
        LET threadTs == outbound.senderCall[1].threadTs
        IN  /\ outbound.replyToId # <<>> => threadTs = outbound.replyToId
            /\ outbound.replyToId = <<>> => threadTs = outbound.threadId
            /\ (threadTs = outbound.threadId /\ threadTs # outbound.replyToId) =>
                   outbound.replyToId = <<>>
            /\ outbound.result # <<>> =>
                   /\ outbound.result[1].channel = "slack"
                   /\ outbound.result[1].messageId = outbound.sent[1].messageId
                   /\ DOMAIN outbound.result[1] = {"channel", "messageId"}

\* C15 witness: sendMedia with both ids called the sender with the replyToId
\* and returned the sender's message id.
C15_Witness ==
    /\ outbound # <<>>
    /\ outbound.operation = "sendMedia"
    /\ outbound.replyToId = <<"1712000000.000001">>
    /\ outbound.threadId = <<"1712345678.123456">>
    /\ outbound.senderCall # <<>>
    /\ outbound.senderCall[1].threadTs = <<"1712000000.000001">>
    /\ outbound.result = <<[channel |-> "slack", messageId |-> "m-media"]>>

\* C16: in every state where the call has resolved no timer of the call is
\* armed; when it resolved through 'error' or 'close' (also a 'close' that a
\* cancellation's kill caused) the timer was cleared at that moment, and the
\* timeout callback has not run and never runs afterwards.
C16_TimerDisarmed ==
    /\ [](\A c \in Solo :
             /\ (calls[c].promise # <<>> \/ calls[c].rejection # <<>>) =>
                    calls[c].timer # "armed"
             /\ (Resolved(c) /\ FirstResolve(c).by # "timeout") =>
                    /\ calls[c].timer = "cleared"
                    /\ ~ResolvedBy(c, "timeout"))
    /\ [][\A c \in Solo :
             /\ (calls[c].promise = <<>> /\ calls'[c].promise # <<>>
                    /\ calls'[c].timer # "fired") =>
                    calls[c].timer = "armed" /\ calls'[c].timer = "cleared"
             /\ calls'[c].timer = "fired" /\ calls[c].timer # "fired" =>
                    calls[c].promise = <<>>
         ]_vars

\* C16 witness: the call resolved through the 'close' that followed the
\* cancellation's kill, its timer is cleared, and execute has returned.
C16_Witness ==
    \E c \in Solo :
        /\ Resolved(c)
        /\ FirstResolve(c).by = "close"
        /\ calls[c].signal = "fired"
        /\ calls[c].killed
        /\ calls[c].timer = "cleared"
        /\ calls[c].pc = "done"

\* C17 as stated: in no reachable state does the child exist while the
\* call's timer has not yet been armed.
C17_TimerBeforeSpawn ==
    \A c \in Solo : calls[c].child # "none" => calls[c].timer # "none"

\* C17 (as amended): the child is spawned first and the timer is armed next,
\* in the same run of the executor.  A timer exists only for a call whose
\* child exists; while the child exists and the timer is not yet armed the
\* call is inside its executor and no callback of it has run, nothing has
\* been resolved, and the only steps are the process ending by itself and the
\* executor arming the timer.
C17_SpawnThenTimer ==
    /\ [](\A c \in Solo :
             /\ calls[c].timer # "none" => calls[c].child # "none"
             /\ (calls[c].child # "none" /\ calls[c].timer = "none") =>
                    /\ calls[c].pc = "executor"
                    /\ hist[c] = IdleHist
                    /\ calls[c].promise = <<>> /\ calls[c].rejection = <<>>
                    /\ ~calls[c].killCalled
                    /\ calls[c].signal # "fired")
    /\ [][\A c \in Solo :
             (calls[c].child # "none" /\ calls[c].timer = "none") =>
                \/ calls'[c].timer = "armed" /\ calls'[c].pc = "awaiting"
                \/ calls'[c] = [calls[c] EXCEPT !.child = "exited",
                                                !.exitCode = calls'[c].exitCode]
         ]_vars

\* C17 witness: the child exists, has even ended, and the executor has not
\* yet armed the timer.
C17_Witness ==
    \E c \in Solo :
        /\ calls[c].pc = "executor"
        /\ calls[c].child = "exited"
        /\ calls[c].timer = "none"

\* C18: when the signal is already aborted at the call of execute, the child
\* is spawned all the same and the abort listener never runs: the signal
\* never fires for the call, child.kill is called by the timeout callback
\* only, the process is never signalled unless the timer fired, and the call
\* resolves through the timeout, 'error' or 'close'.
C18_AbortedBeforeCall ==
    /\ [](\A c \in Solo :
             calls[c].signal = "aborted" =>
                /\ calls[c].rejection = <<>> => calls[c].child # "none"
                /\ calls[c].killCalled => calls[c].timer = "fired"
                /\ calls[c].killed => ResolvedBy(c, "timeout")
                /\ Resolved(c) => FirstResolve(c).by \in {"timeout", "error", "close"}
                /\ calls[c].child = "closed" => ResolvedBy(c, "close"))
    /\ [][\A c \in Solo :
             calls[c].signal = "aborted" =>
                /\ calls'[c].signal = "aborted"
                /\ calls'[c].killCalled # calls[c].killCalled =>
                       (calls[c].timer = "armed" /\ calls'[c].timer = "fired")
         ]_vars

\* C18 witness: with the signal aborted beforehand the child ran, wrote
\* output, ended by itself with code 0 and execute returned its output.
C18_Witness ==
    \E c \in Solo :
        /\ calls[c].signal = "aborted"
        /\ calls[c].pc = "done"
        /\ ~calls[c].killCalled
        /\ hist[c].stdoutInput # <<>>
        /\ FirstResolve(c).by = "close"
        /\ FirstResolve(c).outcome.code = <<0>>
        /\ ~IsFailurePayload(calls[c].result[1])

\* The four controllers, the flag of each and the method of its request.
Operations == {"loadAgents", "createAgent", "loadToolsCatalog", "loadChatModels"}

FlagOf(u, op) ==
    CASE op = "loadAgents" -> u.agentsLoading
      [] op = "createAgent" -> u.agentsCreating
      [] op = "loadToolsCatalog" -> u.toolsCatalogLoading
      [] op = "loadChatModels" -> u.chatModelsListLoading

MethodOf(op) ==
    CASE op = "loadAgents" -> "agents.list"
      [] op = "createAgent" -> "agents.create"
      [] op = "loadToolsCatalog" -> "tools.catalog"
      [] op = "loadChatModels" -> "models.list"

\* The tasks whose request of the method is outstanding.
Outstanding(method) ==
    {t \in Tasks : tasks[t].pc = "awaiting" /\ tasks[t].method = method}

\* The tasks in which a call of the operation is in progress; createAgent
\* calls loadAgents, so a createAgent awaiting agents.list is both.
InProgress(op) ==
    {t \in Tasks : /\ tasks[t].pc = "awaiting"
                   /\ \/ tasks[t].op = op
                      \/ op = "loadAgents" /\ tasks[t].method = "agents.list"}

\* C19: for each controller, at most one request of its method is outstanding
\* and its flag is true exactly while a call of it is in progress; a call made
\* while the flag is true returns without a request, and the response to a
\* request, success or failure, leaves the flag false.
C19_OneRequestPerOperation ==
    /\ [](\A op \in Operations :
             /\ Cardinality(Outstanding(MethodOf(op))) <= 1
             /\ FlagOf(ui, op) <=> InProgress(op) # {})
    /\ [][\A t \in Tasks :
             /\ (tasks[t].pc = "idle" /\ tasks'[t].pc # "idle"
                    /\ FlagOf(ui, tasks'[t].op)) =>
                    /\ tasks'[t].pc = "done" /\ ~tasks'[t].requested
                    /\ \A op \in Operations : FlagOf(ui', op) = FlagOf(ui, op)
                    /\ \A d \in Tasks \ {t} : tasks'[d] = tasks[d]
             /\ (tasks[t].pc = "awaiting" /\ tasks'[t].pc # "awaiting") =>
                    /\ ~FlagOf(ui', tasks[t].op)
                    /\ tasks[t].method = "agents.list" => ~ui'.agentsLoading
         ]_vars

\* C19 witness: a loadChatModels request failed and rejected its call, a
\* second call made meanwhile issued no request, and the flag is false again.
C19_Witness ==
    \E t1, t2 \in Tasks :
        /\ ui.connected
        /\ tasks[t1].op = "loadChatModels" /\ tasks[t1].pc = "rejected"
        /\ tasks[t2].op = "loadChatModels" /\ tasks[t2].pc = "done"
        /\ ~tasks[t2].requested
        /\ ~ui.chatModelsListLoading

\* C20 as stated: once a createAgent whose agents.create returned an agentId
\* has completed and no loadAgents is in progress, agentsSelectedId is the
\* created id and agentsList is the result of an agents.list request issued
\* after the UI was told of the creation.  (Stated for the latest creation,
\* and for behaviours in which every agents.list request returned a list.)
C20_CreatedAgentSelected ==
    \A t \in Tasks :
        (/\ tasks[t].op = "createAgent" /\ tasks[t].pc = "done"
         /\ tasks[t].result # <<>> /\ tasks[t].result[1].agentId # <<>>
         /\ \A k \in uhist.told : k <= tasks[t].result[1].agentId[1]
         /\ InProgress("loadAgents") = {}
         /\ ~uhist.listFailed) =>
            /\ ui.agentsSelectedId = tasks[t].result[1].agentId
            /\ tasks[t].result[1].agentId[1] \in uhist.listTold

\* C21: once clearDefaultClientToolsCache has been called, a load that starts
\* afterwards never returns a value taken from a read that began before the
\* clear, whatever the loads under way at the clear do: no load is answered
\* from module variables written by such a read, and the module variables
\* stay null until a load started after the clear has finished its read.
C21_NoReadFromBeforeClear ==
    /\ (lhist.lastReturn # <<>> /\ LastReturn.fromCache) => ~lhist.staleFill
    /\ (lhist.cleared /\ ~lhist.freshDone) => cache = EmptyCache

============================================================================
